---- MODULE Spec2Model ----
(***************************************************************************)
(* Release list of app.js: the field normalizers, the semver comparator,   *)
(* the six named sorters, the default-sort heuristic and the filter/sort   *)
(* handlers (load, applyFilter, setSort) over the session state            *)
(* state = { data, filtered, sort }.                                       *)
(*                                                                         *)
(* Text is a sequence of one-character strings.  A JavaScript value is a   *)
(* record [t, s, n] : undefined, null, a string (s) or a number (n).  A    *)
(* JavaScript number is a record [k, v] : finite (v), -Infinity, +Infinity *)
(* or NaN.  Of the page, the status line is kept (by kind and count); the  *)
(* table's HTML and the sortBy dropdown only mirror state.filtered and     *)
(* state.sort and are left out.                                            *)
(***************************************************************************)
EXTENDS Integers, Sequences, FiniteSets, TLC

VARIABLES data, filtered, sort, filterValue, urlSort, loadState, status,
          va, vb, vc, res

vars == <<data, filtered, sort, filterValue, urlSort, loadState, status,
          va, vb, vc, res>>

appVars == <<data, filtered, sort, filterValue, urlSort, loadState, status>>
semverVars == <<va, vb, vc, res>>

---------------------------------------------------------------------------
(* Text *)

\* The characters the model draws, in increasing UTF-16 code-unit order.
Chars == << " ", "-", ".", "0", "1", "2", "3", "4", "5", "6", "7", "8", "9",
            "A", "B", "F", "V", "a", "b", "c", "e", "f", "i", "t", "v", "x" >>

\* Position of a character in code-unit order (what < and > on strings compare).
Code(c) == CHOOSE i \in 1..Len(Chars) : Chars[i] = c

Digits == {"0", "1", "2", "3", "4", "5", "6", "7", "8", "9"}

DigitVal(c) == Code(c) - Code("0")

\* String.prototype.toLowerCase, one character.
LowerChar(c) ==
  CASE c = "A" -> "a"
    [] c = "B" -> "b"
    [] c = "F" -> "f"
    [] c = "V" -> "v"
    [] OTHER -> c

toLowerCase(s) == [i \in 1..Len(s) |-> LowerChar(s[i])]

RECURSIVE TrimLeft(_)
TrimLeft(s) == IF s # <<>> /\ Head(s) = " " THEN TrimLeft(Tail(s)) ELSE s

RECURSIVE TrimRight(_)
TrimRight(s) ==
  IF s # <<>> /\ s[Len(s)] = " " THEN TrimRight(SubSeq(s, 1, Len(s) - 1)) ELSE s

\* String.prototype.trim
trim(s) == TrimRight(TrimLeft(s))

\* String.prototype.includes
includes(hay, q) ==
  \E i \in 0..(Len(hay) - Len(q)) : SubSeq(hay, i + 1, i + Len(q)) = q

\* String.prototype.split(sep) for a one-character separator: every segment.
RECURSIVE split(_, _)
split(s, sep) ==
  IF \A i \in 1..Len(s) : s[i] # sep
  THEN << s >>
  ELSE LET i == CHOOSE j \in 1..Len(s) :
                  s[j] = sep /\ \A k \in 1..(j - 1) : s[k] # sep
       IN << SubSeq(s, 1, i - 1) >> \o split(SubSeq(s, i + 1, Len(s)), sep)

\* a < b on strings: -1, 0 or 1 by the first differing code unit, a proper
\* prefix being the smaller.
RECURSIVE StrCmp(_, _)
StrCmp(a, b) ==
  IF a = <<>> /\ b = <<>> THEN 0
  ELSE IF a = <<>> THEN -1
  ELSE IF b = <<>> THEN 1
  ELSE IF Code(Head(a)) < Code(Head(b)) THEN -1
  ELSE IF Code(Head(a)) > Code(Head(b)) THEN 1
  ELSE StrCmp(Tail(a), Tail(b))

\* The longest prefix of digits.
RECURSIVE DigitPrefix(_)
DigitPrefix(s) ==
  IF s # <<>> /\ Head(s) \in Digits
  THEN << Head(s) >> \o DigitPrefix(Tail(s))
  ELSE <<>>

\* Value of a string of digits (0 for the empty string).
RECURSIVE DigitsValue(_)
DigitsValue(s) ==
  IF s = <<>> THEN 0
  ELSE 10 * DigitsValue(SubSeq(s, 1, Len(s) - 1)) + DigitVal(s[Len(s)])

AllDigits(s) == s # <<>> /\ \A i \in 1..Len(s) : s[i] \in Digits

\* Decimal text of a natural number, then of an integer (Number::toString).
RECURSIVE NatToStr(_)
NatToStr(n) ==
  IF n < 10 THEN << Chars[Code("0") + n] >>
  ELSE NatToStr(n \div 10) \o << Chars[Code("0") + (n % 10)] >>

NumToStr(n) == IF n < 0 THEN << "-" >> \o NatToStr(-n) ELSE NatToStr(n)

---------------------------------------------------------------------------
(* JavaScript values and numbers *)

Undefined == [t |-> "undefined", s |-> <<>>, n |-> 0]
Null == [t |-> "null", s |-> <<>>, n |-> 0]
S(chars) == [t |-> "string", s |-> chars, n |-> 0]
N(i) == [t |-> "number", s |-> <<>>, n |-> i]

Fin(i) == [k |-> "fin", v |-> i]
NegInf == [k |-> "-inf", v |-> 0]
PosInf == [k |-> "+inf", v |-> 0]
NaN == [k |-> "nan", v |-> 0]

\* ToBoolean: undefined, null, "", 0 (and NaN) are falsy.
Truthy(x) ==
  CASE x.t = "undefined" -> FALSE
    [] x.t = "null" -> FALSE
    [] x.t = "string" -> x.s # <<>>
    [] x.t = "number" -> x.n # 0

\* ToBoolean of a number: 0 and NaN are falsy.
NumTruthy(x) == ~(x.k = "nan" \/ (x.k = "fin" /\ x.v = 0))

\* a || b on numbers.
NumOr(a, b) == IF NumTruthy(a) THEN a ELSE b

\* a - b on numbers.
NumSub(a, b) ==
  CASE a.k = "nan" \/ b.k = "nan" -> NaN
    [] a.k = "fin" /\ b.k = "fin" -> Fin(a.v - b.v)
    [] a.k = "fin" /\ b.k = "-inf" -> PosInf
    [] a.k = "fin" /\ b.k = "+inf" -> NegInf
    [] a.k = "-inf" /\ b.k = "-inf" -> NaN
    [] a.k = "+inf" /\ b.k = "+inf" -> NaN
    [] a.k = "-inf" -> NegInf
    [] a.k = "+inf" -> PosInf

\* a * -1 on numbers.
NumNeg(a) ==
  CASE a.k = "fin" -> Fin(0 - a.v)
    [] a.k = "-inf" -> PosInf
    [] a.k = "+inf" -> NegInf
    [] a.k = "nan" -> NaN

\* Number.isFinite
isFinite(x) == x.k = "fin"

\* String(v), and the text Array.prototype.join gives an element, for a
\* string or a number (the code converts truthy values only).
String(x) ==
  CASE x.t = "string" -> x.s
    [] x.t = "number" -> NumToStr(x.n)

\* String(v || '')
StringOrEmpty(x) == IF Truthy(x) THEN String(x) ELSE <<>>

\* StringToNumber of trimmed text: the empty string is 0, an optionally signed
\* run of digits is its value and other text is NaN.  (Fractions, exponents
\* and radix prefixes are not among the drawn inputs.)
TextToNumber(w) ==
  IF w = <<>> THEN Fin(0)
  ELSE IF AllDigits(w) THEN Fin(DigitsValue(w))
  ELSE IF Head(w) = "-" /\ AllDigits(Tail(w)) THEN Fin(0 - DigitsValue(Tail(w)))
  ELSE NaN

\* Number(v): undefined is NaN, null is 0, a number is itself, text is
\* trimmed and read.
Number(x) ==
  CASE x.t = "undefined" -> NaN
    [] x.t = "null" -> Fin(0)
    [] x.t = "number" -> Fin(x.n)
    [] x.t = "string" -> TextToNumber(trim(x.s))

\* The value of the digits d at the front of a text; NaN without one.
FrontDigits(d) == IF d = <<>> THEN NaN ELSE Fin(DigitsValue(d))

\* parseInt(s, 10): leading blanks skipped, then the digits at the front.
\* (The text comes from before a '-', so carries no sign.)
parseInt(s) == FrontDigits(DigitPrefix(TrimLeft(s)))

---------------------------------------------------------------------------
(* Helpers (app.js 12-21) *)

LeapYear(y) == (y % 4 = 0 /\ y % 100 # 0) \/ y % 400 = 0

DaysInMonth(y, m) ==
  CASE m \in {1, 3, 5, 7, 8, 10, 12} -> 31
    [] m \in {4, 6, 9, 11} -> 30
    [] m = 2 -> IF LeapYear(y) THEN 29 ELSE 28

\* Days from 1970-01-01 to day d of month mp (counted from March) of the
\* March-based year yy.
DaysFromMarch(yy, mp, d) ==
  (yy \div 400) * 146097
    + (yy % 400) * 365 + (yy % 400) \div 4 - (yy % 400) \div 100
    + (153 * mp + 2) \div 5 + d - 1 - 719468

\* Days from 1970-01-01 to the civil date y-m-d.
DaysFromCivil(y, m, d) ==
  IF m > 2 THEN DaysFromMarch(y, m - 3, d) ELSE DaysFromMarch(y - 1, m + 9, d)

\* The time value of the date y-m-d; NaN when there is no such day.
DateOf(y, m, d) ==
  IF m \in 1..12 /\ d \in 1..DaysInMonth(y, m)
  THEN Fin(DaysFromCivil(y, m, d))
  ELSE NaN

\* Date.parse of the date-only forms YYYY, YYYY-MM and YYYY-MM-DD (UTC); any
\* other text is NaN.  Time values are kept in days: the drawn dates are
\* date-only, whose time values are whole multiples of one day, so differences
\* keep their sign and their zero.
DateParse(s) ==
  CASE Len(s) = 4 /\ AllDigits(s) -> DateOf(DigitsValue(s), 1, 1)
    [] Len(s) = 7 /\ AllDigits(SubSeq(s, 1, 4)) /\ s[5] = "-"
         /\ AllDigits(SubSeq(s, 6, 7)) ->
         DateOf(DigitsValue(SubSeq(s, 1, 4)), DigitsValue(SubSeq(s, 6, 7)), 1)
    [] Len(s) = 10 /\ AllDigits(SubSeq(s, 1, 4)) /\ s[5] = "-"
         /\ AllDigits(SubSeq(s, 6, 7)) /\ s[8] = "-"
         /\ AllDigits(SubSeq(s, 9, 10)) ->
         DateOf(DigitsValue(SubSeq(s, 1, 4)), DigitsValue(SubSeq(s, 6, 7)),
                DigitsValue(SubSeq(s, 9, 10)))
    [] OTHER -> NaN

\* new Date(d).getTime(): undefined is NaN, null is the epoch, text is parsed.
\* (A record's date is text or absent.)
getTime(d) ==
  CASE d.t = "undefined" -> NaN
    [] d.t = "null" -> Fin(0)
    [] d.t = "string" -> DateParse(d.s)

\* Number.isFinite(x) ? x : -Infinity
FiniteOrLowest(x) == IF isFinite(x) THEN x ELSE NegInf

toDate(d) == FiniteOrLowest(getTime(d))

toBuild(b) == FiniteOrLowest(Number(b))

\* .replace(/^v/i, ''), and the [vV]? of the semver shape
StripV(t) == IF t # <<>> /\ Head(t) \in {"v", "V"} THEN Tail(t) ELSE t

AlnumDotDash == { Chars[i] : i \in 2..Len(Chars) }

\* \d+\.\d+\.\d+ against the text split at its dots
ThreeNumbers(core) == Len(core) = 3 /\ \A i \in 1..3 : AllDigits(core[i])

\* (?:-[0-9A-Za-z.-]+)?$ against what follows the three numbers
SuffixShape(rest) ==
  rest = <<>> \/ (/\ Len(rest) >= 2
                  /\ rest[1] = "-"
                  /\ \A i \in 2..Len(rest) : rest[i] \in AlnumDotDash)

\* The length of the part of u in front of its first '-'.
CoreLen(u) ==
  IF \A i \in 1..Len(u) : u[i] # "-" THEN Len(u)
  ELSE (CHOOSE i \in 1..Len(u) : u[i] = "-" /\ \A j \in 1..(i - 1) : u[j] # "-") - 1

ShapeAt(u, n) ==
  ThreeNumbers(split(SubSeq(u, 1, n), ".")) /\ SuffixShape(SubSeq(u, n + 1, Len(u)))

\* /^[vV]?\d+\.\d+\.\d+(?:-[0-9A-Za-z.-]+)?$/.test(String(v || ''))
looksLikeSemverText(u) == ShapeAt(u, CoreLen(u))

looksLikeSemver(v) == looksLikeSemverText(StripV(StringOrEmpty(v)))

---------------------------------------------------------------------------
(* Semver compare (app.js 24-37) *)

\* n || 0
OrZero(p) == IF NumTruthy(p) THEN p.v ELSE 0

\* nums[i] || 0 of core.split('.').map(n => parseInt(n, 10) || 0)
NumAt(nums, i) == IF i <= Len(nums) THEN OrZero(parseInt(nums[i])) ELSE 0

\* const [core, pre = ''] = parts; { n: [major, minor, patch], pre }
Parsed(nums, parts) ==
  [n |-> << NumAt(nums, 1), NumAt(nums, 2), NumAt(nums, 3) >>,
   pre |-> IF Len(parts) >= 2 THEN parts[2] ELSE <<>>]

ParseParts(parts) == Parsed(split(parts[1], "."), parts)

parse(v) == ParseParts(split(StripV(StringOrEmpty(v)), "-"))

\* Lines 31-36 on the parsed versions, without the rule of line 35.
CompareParsedNoReleaseRule(A, B) ==
  IF A.n[1] # B.n[1] THEN A.n[1] - B.n[1]
  ELSE IF A.n[2] # B.n[2] THEN A.n[2] - B.n[2]
  ELSE IF A.n[3] # B.n[3] THEN A.n[3] - B.n[3]
  ELSE IF A.pre # <<>> /\ B.pre = <<>> THEN -1
  ELSE StrCmp(A.pre, B.pre)

\* Lines 31-36 on the parsed versions.
CompareParsed(A, B) ==
  IF A.n[1] # B.n[1] THEN A.n[1] - B.n[1]
  ELSE IF A.n[2] # B.n[2] THEN A.n[2] - B.n[2]
  ELSE IF A.n[3] # B.n[3] THEN A.n[3] - B.n[3]
  ELSE IF A.pre # <<>> /\ B.pre = <<>> THEN -1
  ELSE IF A.pre = <<>> /\ B.pre # <<>> THEN 1
  ELSE StrCmp(A.pre, B.pre)

\* The comparator without the release-after-pre-release rule of line 35.
cmpSemverNoReleaseRule(a, b) == CompareParsedNoReleaseRule(parse(a), parse(b))

cmpSemver(a, b) == CompareParsed(parse(a), parse(b))

---------------------------------------------------------------------------
(* Sorters (app.js 40-62) *)

OwnKeys == {"build-desc", "build-asc", "semver-desc", "semver-asc",
            "date-desc", "date-asc"}

\* Properties the sorters object inherits from Object.prototype, among them
\* toString, a function that answers text for any this; valueOf, a function
\* that throws a TypeError when called as a comparator (this is undefined);
\* and __proto__, which is an object and not a function.
InheritedFunctions == {"toString", "valueOf"}
InheritedThrowing == {"valueOf"}
InheritedObjects == {"__proto__"}

\* value in sorters
HasProperty(key) == key \in OwnKeys \cup InheritedFunctions \cup InheritedObjects

\* sorters[key] is truthy under the same keys: every property is an object.
LookupTruthy(key) == HasProperty(key)

\* sorters[key] is a function
Callable(key) == key \in OwnKeys \cup InheritedFunctions

\* seq.sort(sorters[key]) throws: at once for a comparator that is no
\* function, and from the first comparison (there is one from two elements
\* on) for a comparator that throws.
SortThrows(key, seq) ==
  ~Callable(key) \/ (key \in InheritedThrowing /\ Len(seq) >= 2)

\* The differences the sorters are made of.
ByBuild(a, b) == NumSub(toBuild(a.build), toBuild(b.build))
ByDate(a, b) == NumSub(toDate(a.date), toDate(b.date))
BySemver(a, b) == Fin(cmpSemver(a.version, b.version))

\* The number the comparator sorters[key] gives sort for (a, b).  The
\* inherited toString returns text, which sort reads as NaN (SortThrows has
\* the comparators that return nothing).
Sorter(key, a, b) ==
  CASE key = "build-desc" -> NumOr(NumOr(ByBuild(b, a), ByDate(b, a)), BySemver(b, a))
    [] key = "build-asc" -> NumOr(NumOr(ByBuild(a, b), ByDate(a, b)), BySemver(a, b))
    [] key = "semver-desc" -> NumOr(NumNeg(BySemver(a, b)), ByDate(b, a))
    [] key = "semver-asc" -> NumOr(BySemver(a, b), ByDate(a, b))
    [] key = "date-desc" -> NumOr(ByDate(b, a), ByBuild(b, a))
    [] key = "date-asc" -> NumOr(ByDate(a, b), ByBuild(a, b))
    [] OTHER -> NaN

---------------------------------------------------------------------------
(* Default sort (app.js 65-70) *)

pickDefaultSort(arr) ==
  LET hasNumericBuild == \E i \in 1..Len(arr) : isFinite(Number(arr[i].build))
      allLookSemver == \A i \in 1..Len(arr) : looksLikeSemver(arr[i].version)
  IN IF hasNumericBuild THEN "build-desc"
     ELSE IF allLookSemver THEN "semver-desc"
     ELSE "date-desc"

---------------------------------------------------------------------------
(* Filter (app.js 95-108) *)

RECURSIVE join(_)
join(strs) ==
  IF strs = <<>> THEN <<>>
  ELSE IF Len(strs) = 1 THEN strs[1]
  ELSE strs[1] \o << " " >> \o join(Tail(strs))

\* [version, date, channel, build, ...changes, ...tags]
\*   .filter(Boolean).join(' ').toLowerCase()
hay(it) ==
  LET fields == << it.version, it.date, it.channel, it.build >>
                  \o it.changes \o it.tags
      kept == SelectSeq(fields, Truthy)
  IN toLowerCase(join([i \in 1..Len(kept) |-> String(kept[i])]))

\* el.filter.value.toLowerCase().trim()
Query(text) == trim(toLowerCase(text))

\* The filter callback for the record it under the query q.
Passes(it, q) == q = <<>> \/ includes(hay(it), q)

---------------------------------------------------------------------------
(* Inputs *)

\* Longest dataset drawn.
MaxData == 2

\* Release records (absent changes or tags are the empty sequence, which is
\* what it.changes || [] makes of them).
\* {version: "1.0.0", build: 1, date: "2021-01-02", channel: "beta", changes: ["Fix A"]}
R1 ==
  [version |-> S(<< "1", ".", "0", ".", "0" >>),
   build |-> N(1),
   date |-> S(<< "2", "0", "2", "1", "-", "0", "1", "-", "0", "2" >>),
   channel |-> S(<< "b", "e", "t", "a" >>),
   changes |-> << S(<< "F", "i", "x", " ", "A" >>) >>,
   tags |-> <<>>]

\* {version: "v1.0.0", build: 2, date: "2021-01-02", tags: ["b"]}
R2 ==
  [version |-> S(<< "v", "1", ".", "0", ".", "0" >>),
   build |-> N(2),
   date |-> S(<< "2", "0", "2", "1", "-", "0", "1", "-", "0", "2" >>),
   channel |-> Undefined,
   changes |-> <<>>,
   tags |-> << S(<< "b" >>) >>]

\* {version: "1.2.3", build: 0}
R3 ==
  [version |-> S(<< "1", ".", "2", ".", "3" >>),
   build |-> N(0),
   date |-> Undefined,
   channel |-> Undefined,
   changes |-> <<>>,
   tags |-> <<>>]

\* {version: "1.0.0-a-1", build: null, date: "2020-12-31"}
R4 ==
  [version |-> S(<< "1", ".", "0", ".", "0", "-", "a", "-", "1" >>),
   build |-> Null,
   date |-> S(<< "2", "0", "2", "0", "-", "1", "2", "-", "3", "1" >>),
   channel |-> Undefined,
   changes |-> <<>>,
   tags |-> <<>>]

\* {version: "abc", build: "x", date: ""}
R5 ==
  [version |-> S(<< "a", "b", "c" >>),
   build |-> S(<< "x" >>),
   date |-> S(<<>>),
   channel |-> Undefined,
   changes |-> <<>>,
   tags |-> <<>>]

\* {version: "2.0.0-b", date: "2021-01-02"}
R6 ==
  [version |-> S(<< "2", ".", "0", ".", "0", "-", "b" >>),
   build |-> Undefined,
   date |-> S(<< "2", "0", "2", "1", "-", "0", "1", "-", "0", "2" >>),
   channel |-> Undefined,
   changes |-> <<>>,
   tags |-> <<>>]

RecordPool == {R1, R2, R3, R4, R5, R6}

Datasets == UNION { [1..n -> RecordPool] : n \in 0..MaxData }

\* The decoded versions.json: an array, an object with a releases array, or
\* another object.
JsonDocs ==
  { [shape |-> sh, items |-> a] : sh \in {"array", "releases"}, a \in Datasets }
    \cup { [shape |-> "other", items |-> <<>>] }

\* Texts typed into the filter box: "", "0", " Fix", "b".
FilterTexts == { <<>>, << "0" >>, << " ", "F", "i", "x" >>, << "b" >> }

\* Texts given to setSort and as ?sort= .
SortTexts == OwnKeys \cup {"toString", "valueOf", "__proto__", "bogus"}

\* params.get('sort'): "" stands for an absent (null) or empty parameter,
\* both falsy.
UrlSorts == {"", "date-desc", "bogus", "toString", "__proto__"}

\* Version values given to cmpSemver.
VersionPool ==
  { Undefined, S(<<>>),
    S(<< "1", ".", "0", ".", "0" >>),
    S(<< "v", "1", ".", "0", ".", "0" >>),
    S(<< "V", "1", ".", "0", ".", "0", "-", "A" >>),
    S(<< "1", ".", "0", ".", "0", "-", "a" >>),
    S(<< "1", ".", "0", ".", "0", "-", "b" >>),
    S(<< "1", ".", "0", ".", "0", "-", "a", "-", "1" >>),
    S(<< "1", ".", "0", ".", "0", "-", "a", "-", "2" >>),
    S(<< "1", ".", "0", ".", "0", "-" >>),
    S(<< "2", ".", "0", ".", "0" >>),
    S(<< "1", ".", "1", "0", ".", "0" >>),
    S(<< "1", ".", "2" >>),
    S(<< "a", "b", "c" >>),
    S(<< "-", "1" >>),
    S(<< ".", "." >>) }

---------------------------------------------------------------------------
(* Array.prototype.sort and filter on the drawn inputs *)

\* sort places b before a when the comparator's number c for (a, b) is > 0;
\* NaN counts as 0.
Positive(c) == c.k = "+inf" \/ (c.k = "fin" /\ c.v > 0)

\* The comparators' numbers for the drawn keys and records, computed once.
SorterNumbers ==
  [key \in SortTexts, a \in RecordPool, b \in RecordPool |-> Sorter(key, a, b)]

After(key, a, b) == Positive(SorterNumbers[key, a, b])

\* The last position of sorted (0 for none) whose element x does not sort
\* in front of.
LastNotAfter(key, sorted, x) ==
  IF \A i \in 1..Len(sorted) : After(key, sorted[i], x) THEN 0
  ELSE CHOOSE i \in 1..Len(sorted) :
         /\ ~After(key, sorted[i], x)
         /\ \A j \in (i + 1)..Len(sorted) : After(key, sorted[j], x)

InsertAt(sorted, x, at) ==
  SubSeq(sorted, 1, at) \o << x >> \o SubSeq(sorted, at + 1, Len(sorted))

\* Insertion of x behind the last element that does not sort after it.
InsertSorted(key, sorted, x) == InsertAt(sorted, x, LastNotAfter(key, sorted, x))

\* Array.prototype.sort with sorters[key]: a stable sort, on a fresh array.
RECURSIVE StableSort(_, _)
StableSort(key, seq) ==
  IF seq = <<>> THEN <<>>
  ELSE InsertSorted(key, StableSort(key, SubSeq(seq, 1, Len(seq) - 1)), seq[Len(seq)])

\* The filter callback's answers for the drawn records and texts, computed once.
PassesAnswers ==
  [it \in RecordPool, text \in FilterTexts |-> Passes(it, Query(text))]

\* state.data.filter(...) under the text of the filter box
FilterData(arr, text) == SelectSeq(arr, LAMBDA it : PassesAnswers[it, text])

---------------------------------------------------------------------------
(* State (app.js 2) and handlers *)

Loading == [kind |-> "loading", n |-> 0]
Failed == [kind |-> "failed", n |-> 0]
Loaded(n) == [kind |-> "loaded", n |-> n]
Count(n) == [kind |-> "count", n |-> n]

NoRes == [done |-> FALSE, aa |-> 0, ab |-> 0, ba |-> 0, bc |-> 0, ac |-> 0]

\* The script has run to the first await of load(); the filter box is empty.
Init ==
  /\ data = <<>>
  /\ filtered = <<>>
  /\ sort = "build-desc"
  /\ filterValue = <<>>
  /\ urlSort \in UrlSorts
  /\ loadState = "pending"
  /\ status = Loading
  /\ va = Undefined /\ vb = Undefined /\ vc = Undefined /\ res = NoRes

\* Array.isArray(json) ? json : (Array.isArray(json.releases) ? json.releases : [])
Releases(json) == IF json.shape \in {"array", "releases"} THEN json.items ELSE <<>>

\* load() from the fetch's answer on (app.js 130-144); a sort that throws is
\* caught at 145.
Load(json) ==
  /\ loadState = "pending"
  /\ LET arr == Releases(json)
         key == IF urlSort # "" /\ LookupTruthy(urlSort) THEN urlSort ELSE "build-asc"
     IN /\ data' = arr
        /\ sort' = key
        /\ IF ~SortThrows(key, arr)
           THEN /\ filtered' = StableSort(key, arr)
                /\ status' = Loaded(Len(arr))
                /\ loadState' = "loaded"
           ELSE /\ filtered' = filtered
                /\ status' = Failed
                /\ loadState' = "failed"
  /\ UNCHANGED << filterValue, urlSort, semverVars >>

\* load() when the fetch or the decoding fails (app.js 128-130, 145-149).
LoadFail ==
  /\ loadState = "pending"
  /\ status' = Failed
  /\ loadState' = "failed"
  /\ UNCHANGED << data, filtered, sort, filterValue, urlSort, semverVars >>

\* applyFilter with state.data sorted where it is, before the filter.
ApplyFilterInPlace(text) ==
  /\ filterValue' = text
  /\ IF ~SortThrows(sort, data)
     THEN /\ data' = StableSort(sort, data)
          /\ filtered' = FilterData(data', text)
          /\ status' = Count(Len(filtered'))
     ELSE UNCHANGED << data, filtered, status >>
  /\ UNCHANGED << sort, urlSort, loadState, semverVars >>

\* The input event of the filter box: its value is text, and applyFilter runs.
\* When sort throws, state.filtered is not assigned and render does not run.
ApplyFilter(text) ==
  /\ filterValue' = text
  /\ IF ~SortThrows(sort, FilterData(data, text))
     THEN /\ filtered' = StableSort(sort, FilterData(data, text))
          /\ status' = Count(Len(filtered'))
     ELSE UNCHANGED << filtered, status >>
  /\ UNCHANGED << data, sort, urlSort, loadState, semverVars >>

\* setSort falling back to the initial key, not the current one, for a name
\* that is no property of sorters.
SetSortFallback(value) ==
  /\ sort' = IF HasProperty(value) THEN value ELSE "build-desc"
  /\ IF ~SortThrows(sort', filtered)
     THEN /\ filtered' = StableSort(sort', filtered)
          /\ status' = Count(Len(filtered'))
     ELSE UNCHANGED << filtered, status >>
  /\ UNCHANGED << data, filterValue, urlSort, loadState, semverVars >>

\* setSort(value); when sort throws, state.sort is assigned already and
\* state.filtered is not.
SetSort(value) ==
  /\ sort' = IF HasProperty(value) THEN value ELSE sort
  /\ IF ~SortThrows(sort', filtered)
     THEN /\ filtered' = StableSort(sort', filtered)
          /\ status' = Count(Len(filtered'))
     ELSE UNCHANGED << filtered, status >>
  /\ UNCHANGED << data, filterValue, urlSort, loadState, semverVars >>

Next ==
  \/ \E json \in JsonDocs : Load(json)
  \/ LoadFail
  \/ \E text \in FilterTexts : ApplyFilter(text)
  \/ \E value \in SortTexts : SetSort(value)

Spec == Init /\ [][Next]_vars

---------------------------------------------------------------------------
(* cmpSemver on drawn versions *)

SemverInit ==
  /\ va \in VersionPool /\ vb \in VersionPool /\ vc \in VersionPool
  /\ res = NoRes
  /\ data = <<>> /\ filtered = <<>> /\ sort = "build-desc"
  /\ filterValue = <<>> /\ urlSort = "" /\ loadState = "pending"
  /\ status = Loading

Compare ==
  /\ ~res.done
  /\ res' = [done |-> TRUE,
             aa |-> cmpSemver(va, va),
             ab |-> cmpSemver(va, vb),
             ba |-> cmpSemver(vb, va),
             bc |-> cmpSemver(vb, vc),
             ac |-> cmpSemver(va, vc)]
  /\ UNCHANGED << va, vb, vc, appVars >>

SemverNext == Compare

SemverSpec == SemverInit /\ [][SemverNext]_vars

---------------------------------------------------------------------------
(* Properties *)

Sign(i) == IF i < 0 THEN -1 ELSE IF i > 0 THEN 1 ELSE 0

Occurrences(seq, r) == Cardinality({ i \in 1..Len(seq) : seq[i] = r })

\* The same records, each as often, in any order.
SameRecords(s, t) == \A r \in RecordPool : Occurrences(s, r) = Occurrences(t, r)

\* A build or date that is undefined, null or the empty string.
Missing(x) == x.t \in {"undefined", "null"} \/ (x.t = "string" /\ x.s = <<>>)

\* A field that is present and not empty.
Present(x) == ~Missing(x)

\* The searchable text of a record as the filter is described: version,
\* date, channel, the build as text, the changes and the tags, those present,
\* joined by blanks, in lower case.
DescribedHay(it) ==
  LET fields == << it.version, it.date, it.channel, it.build >>
                  \o it.changes \o it.tags
      kept == SelectSeq(fields, Present)
  IN toLowerCase(join([i \in 1..Len(kept) |-> String(kept[i])]))

DescribedPasses(it, text) ==
  toLowerCase(trim(text)) = <<>> \/ includes(DescribedHay(it), toLowerCase(trim(text)))

\* C1: when the view is the filtered and sorted result under the previous
\* registry key, setSort(value) with a registry key gives the sequence that
\* filtering the dataset and sorting it under the new key gives.
C1_SetSortEqualsRefilter ==
  [][\A value \in OwnKeys :
       ( /\ sort \in OwnKeys
         /\ filtered = StableSort(sort, FilterData(data, filterValue))
         /\ SetSort(value) )
       => filtered' = StableSort(value, FilterData(data, filterValue))]_vars

\* C2: a load that succeeds without a usable ?sort= (none, or a text such as
\* "bogus" that names nothing in sorters) leaves the sort key chosen by
\* pickDefaultSort over the loaded dataset.
C2_LoadPicksDefaultSort ==
  [][\A json \in JsonDocs :
       (Load(json) /\ ~HasProperty(urlSort) /\ loadState' = "loaded")
       => sort' = pickDefaultSort(data')]_vars

\* C3: in every reachable state (the sort key being a registry name, as C4
\* has it) the view holds exactly the records of the dataset that pass the
\* filter under the text of the filter box, as the filter callback decides or
\* as the filter is described.
C3_ViewIsFilteredData ==
  sort \in OwnKeys =>
    \/ SameRecords(filtered, FilterData(data, filterValue))
    \/ SameRecords(filtered, SelectSeq(data, LAMBDA it : DescribedPasses(it, filterValue)))

\* C4: the sort key is always one of the six registry names, and setSort with
\* any other text leaves it as it was.
C4_SortKeyInRegistry ==
  [][ /\ sort \in OwnKeys
      /\ sort' \in OwnKeys
      /\ \A value \in SortTexts \ OwnKeys : SetSort(value) => sort' = sort ]_vars

LowestBuild(r) == Missing(r.build) \/ ~isFinite(Number(r.build))
LowestDate(r) == Missing(r.date) \/ ~isFinite(getTime(r.date))

\* C5: every loaded record whose build (date) is missing or unparseable has
\* the normalizer's -Infinity, and in the view build-asc (date-asc) puts no
\* such record behind a record with a numeric key, build-desc (date-desc)
\* none in front of one.
C5_MissingSortsLowest ==
  /\ \A i \in 1..Len(data) :
       /\ LowestBuild(data[i]) => toBuild(data[i].build) = NegInf
       /\ LowestDate(data[i]) => toDate(data[i].date) = NegInf
  /\ \A i, j \in 1..Len(filtered) :
       i < j =>
         /\ sort = "build-asc" => ~(LowestBuild(filtered[j]) /\ ~LowestBuild(filtered[i]))
         /\ sort = "build-desc" => ~(LowestBuild(filtered[i]) /\ ~LowestBuild(filtered[j]))
         /\ sort = "date-asc" => ~(LowestDate(filtered[j]) /\ ~LowestDate(filtered[i]))
         /\ sort = "date-desc" => ~(LowestDate(filtered[i]) /\ ~LowestDate(filtered[j]))

\* The pre-release string as everything after the first '-' of the text u.
AfterFirstDash(u) == SubSeq(u, CoreLen(u) + 2, Len(u))

PreRelease(v) == AfterFirstDash(StripV(StringOrEmpty(v)))

\* C6: for versions with equal major, minor and patch, cmpSemver is decided
\* by the pre-release strings, everything after the first '-': with one
\* sorts before without, and two compare as plain text, 0 only when the same.
C6_PreReleaseDecides ==
  (res.done /\ parse(va).n = parse(vb).n) =>
    /\ (PreRelease(va) # <<>> /\ PreRelease(vb) = <<>>) => res.ab < 0
    /\ (PreRelease(va) = <<>> /\ PreRelease(vb) # <<>>) => res.ab > 0
    /\ (PreRelease(va) = <<>> /\ PreRelease(vb) = <<>>) => res.ab = 0
    /\ (PreRelease(va) # <<>> /\ PreRelease(vb) # <<>>)
         => Sign(res.ab) = StrCmp(PreRelease(va), PreRelease(vb))

\* C7: cmpSemver is a total preorder on all version values: cmp(a, a) = 0,
\* cmp(a, b) and cmp(b, a) have opposite signs, and cmp(a, b) <= 0 with
\* cmp(b, c) <= 0 gives cmp(a, c) <= 0.
C7_TotalOrder ==
  res.done =>
    /\ res.aa = 0
    /\ Sign(res.ab) = 0 - Sign(res.ba)
    /\ (res.ab <= 0 /\ res.bc <= 0) => res.ac <= 0

\* Three versions of equal numbers compared, a pre-release in front of a
\* later pre-release in front of the release.
C7_Witness ==
  /\ res.done
  /\ res.ab < 0 /\ res.bc < 0 /\ res.ac < 0
  /\ parse(va).n = parse(vc).n
  /\ parse(va).pre # <<>> /\ parse(vb).pre # <<>> /\ parse(vc).pre = <<>>

\* C8: applyFilter keeps a record of the dataset iff the trimmed, lower-cased
\* query is empty or occurs in the record's searchable text, which leaves a
\* field out only when it is absent or empty.
C8_FilterMatchesDescription ==
  [][\A text \in FilterTexts :
       (ApplyFilter(text) /\ sort \in OwnKeys) =>
         \A r \in RecordPool :
           (\E i \in 1..Len(filtered') : filtered'[i] = r)
             <=> (\E i \in 1..Len(data) : data[i] = r /\ DescribedPasses(r, text))]_vars

\* C9: the load stores the fetched array as it came, and no other step (the
\* filter box, setSort) changes the stored dataset.
C9_DatasetUnchanged ==
  [][ /\ loadState' = loadState => data' = data
      /\ loadState = "pending" =>
           \A json \in JsonDocs : Load(json) => data' = Releases(json) ]_vars

\* A loaded dataset of two records shown in the other order, under a key set
\* by setSort and a text typed into the filter box.
C9_Witness ==
  /\ loadState = "loaded"
  /\ Len(data) = 2 /\ data[1] # data[2]
  /\ filtered = << data[2], data[1] >>
  /\ sort = "semver-desc"
  /\ filterValue # <<>>

\* C10: setSort with a name outside the registry leaves the view's sequence
\* as it was, and sorting the view again with its comparator gives the view.
C10_UnknownSortKeepsView ==
  [][ /\ \A value \in SortTexts \ OwnKeys : SetSort(value) => filtered' = filtered
      /\ ~SortThrows(sort, filtered) => StableSort(sort, filtered) = filtered ]_vars

\* setSort("toString") has been called (no ?sort= was given) on a view of two
\* records that a registry comparator had put in the other order than loaded.
C10_Witness ==
  /\ urlSort = "" /\ loadState = "loaded"
  /\ sort = "toString"
  /\ Len(data) = 2 /\ data[1] # data[2]
  /\ filtered = << data[2], data[1] >>

====
